---- MODULE Spec2Model ----
(***************************************************************************)
(* A model of the mgz-optimize tools:                                      *)
(*   - can_convert_mgz_to_int.py : can_convert_to_int                      *)
(*   - mgz_optimize.py : parse_args, check_args, find_best_dtype,          *)
(*     guess_intent_code_from_filename, optimize_mgz, main                 *)
(*                                                                         *)
(* Numbers.  TLC integers are 32 bit, and the int32 limits and the values  *)
(* just beyond them matter here, so a sample value is a record             *)
(*     [k, hi, lo, fr]   with value  hi * 2^16 + lo + fr / Scale           *)
(* (0 <= lo < 2^16, 0 <= fr < Scale) when k = "fin", and k = "nan",        *)
(* "pinf", "ninf" for the IEEE specials.  None is <<>> and a present       *)
(* value x is <<x>>.                                                       *)
(***************************************************************************)
EXTENDS Integers, Sequences, FiniteSets, TLC

VARIABLES
    pc,            \* position of main(): "start", "parsed", "loop", "done", "raised"
    argv,          \* the command line given to the optimizer
    args,          \* the namespace parse_args returned
    infilelist,    \* check_args' first result
    outfilelist,   \* check_args' second result
    intent,        \* check_args' third result
    i,             \* main's loop index (1-based here)
    exitcode,      \* <<>> while running, <<0>> on return 0, <<1>> on an uncaught exception
    raised_in,     \* "" or the function whose exception ended the run
    last,          \* what the latest optimize_mgz call loaded and saved
    calls,         \* the sequence of optimize_mgz calls made so far
    np_array,      \* input of the pure functions (find_best_dtype, can_convert_to_int)
    tol,           \* can_convert_to_int's tol, in units of 1/Scale
    ret            \* <<>> before the call, <<result>> after it

vars == <<pc, argv, args, infilelist, outfilelist, intent, i, exitcode, raised_in,
          last, calls, np_array, tol, ret>>

-----------------------------------------------------------------------------
(* Bounds *)

\* sample values have resolution 1/Scale, Scale = 2 * HalfScale
HalfScale == 2

\* longest sample array
MaxLen == 2

\* largest tolerance tried, in units of 1/Scale
MaxTol == 2

\* longest sample array of a volume on disk
MaxVolLen == 1

Scale == 2 * HalfScale

Base == 2^16

-----------------------------------------------------------------------------
(* Numbers *)

None == <<>>

Some(x) == <<x>>

MkInt(h, l) == [k |-> "fin", hi |-> h, lo |-> l, fr |-> 0]

FromInt(n) == MkInt(n \div Base, n % Base)

Frac(n, f) == [FromInt(n) EXCEPT !.fr = f]

NaN == [k |-> "nan", hi |-> 0, lo |-> 0, fr |-> 0]

PInf == [k |-> "pinf", hi |-> 0, lo |-> 0, fr |-> 0]

NInf == [k |-> "ninf", hi |-> 0, lo |-> 0, fr |-> 0]

\* the integer part (floor) of a finite value
Floor(x) == MkInt(x.hi, x.lo)

Succ(n) == IF n.lo = Base - 1 THEN MkInt(n.hi + 1, 0) ELSE MkInt(n.hi, n.lo + 1)

Rank(x) == CASE x.k = "ninf" -> 0 [] x.k = "fin" -> 1 [] x.k = "pinf" -> 2 [] OTHER -> 3

\* a <= b as IEEE / numpy compare: every comparison with NaN is False
Leq(a, b) ==
    IF a.k = "nan" \/ b.k = "nan" THEN FALSE
    ELSE IF Rank(a) # Rank(b) THEN Rank(a) < Rank(b)
    ELSE IF a.k # "fin" THEN TRUE
    ELSE \/ a.hi < b.hi
         \/ a.hi = b.hi /\ a.lo < b.lo
         \/ a.hi = b.hi /\ a.lo = b.lo /\ a.fr <= b.fr

Range(s) == {s[n] : n \in DOMAIN s}

\* np.min / np.max: NaN propagates
np_min(a) ==
    IF \E x \in Range(a.data) : x.k = "nan" THEN NaN
    ELSE CHOOSE m \in Range(a.data) : \A x \in Range(a.data) : Leq(m, x)

np_max(a) ==
    IF \E x \in Range(a.data) : x.k = "nan" THEN NaN
    ELSE CHOOSE m \in Range(a.data) : \A x \in Range(a.data) : Leq(x, m)

Abs(n) == IF n < 0 THEN -n ELSE n

IntMax(S) == CHOOSE m \in S : \A x \in S : x <= m

\* |a - b| in units of 1/Scale, for finite a, b less than 2^14 apart
abs_diff(a, b) ==
    Abs(((a.hi - b.hi) * Base + (a.lo - b.lo)) * Scale + (a.fr - b.fr))

\* np.round on one element: to the nearest integer, ties to the even one
np_round(x) ==
    IF x.k # "fin" THEN x
    ELSE IF 2 * x.fr < Scale THEN Floor(x)
    ELSE IF 2 * x.fr > Scale THEN Succ(Floor(x))
    ELSE IF x.lo % 2 = 0 THEN Floor(x) ELSE Succ(Floor(x))

\* the C cast of a finite float to an integer: truncation toward zero
Trunc(x) == IF x.hi < 0 /\ x.fr > 0 THEN Succ(Floor(x)) ELSE Floor(x)

-----------------------------------------------------------------------------
(* dtypes *)

IntDtypes == {">u1", ">i2", ">i4", "<i8"}

FloatDtypes == {"<f4"}

\* np.issubdtype(dtype, np.integer)
is_integer_dtype(dtype) == dtype \in IntDtypes

\* mgz_dtype_info: (dtype_str, np.iinfo(dtype).min, np.iinfo(dtype).max)
mgz_dtype_info ==
    << <<">u1", FromInt(0), FromInt(255)>>,
       <<">i2", FromInt(-32768), FromInt(32767)>>,
       <<">i4", MkInt(-32768, 0), MkInt(32767, 65535)>> >>

\* the integer cast into a narrower two's-complement type keeps the low bits
Wrap(n, dtype) ==
    CASE dtype = ">u1" -> FromInt(n.lo % 256)
      [] dtype = ">i2" -> FromInt(IF n.lo >= 32768 THEN n.lo - Base ELSE n.lo)
      [] dtype = ">i4" -> MkInt(((n.hi + 32768) % Base) - 32768, n.lo)
      [] OTHER -> n

\* ndarray.astype(dtype) to one of the integer dtypes of mgz_dtype_info.
\* find_best_dtype's range check has excluded NaN and the infinities.
astype(a, dtype) ==
    [dtype |-> dtype,
     data |-> [n \in DOMAIN a.data |->
                  IF a.data[n].k = "fin" THEN Wrap(Trunc(a.data[n]), dtype)
                  ELSE FromInt(0)]]

-----------------------------------------------------------------------------
(* find_best_dtype *)

RECURSIVE first_fit(_, _, _, _)
first_fit(min_val, max_val, possible_dtypes, n) ==
    IF n > Len(possible_dtypes) THEN None
    ELSE IF Leq(possible_dtypes[n][2], min_val) /\ Leq(max_val, possible_dtypes[n][3])
         THEN Some(possible_dtypes[n][1])
         ELSE first_fit(min_val, max_val, possible_dtypes, n + 1)

\* a plausible slip: only the maximum is compared
RECURSIVE first_fit_max_only(_, _, _, _)
first_fit_max_only(min_val, max_val, possible_dtypes, n) ==
    IF n > Len(possible_dtypes) THEN None
    ELSE IF Leq(max_val, possible_dtypes[n][3])
         THEN Some(possible_dtypes[n][1])
         ELSE first_fit_max_only(min_val, max_val, possible_dtypes, n + 1)

find_best_dtype_max_only(a) ==
    first_fit_max_only(np_min(a), np_max(a), mgz_dtype_info, 1)

find_best_dtype(a) ==
    first_fit(np_min(a), np_max(a), mgz_dtype_info, 1)

-----------------------------------------------------------------------------
(* can_convert_to_int *)

Verdict(ok, reason, dev) == [ok |-> ok, reason |-> reason, max_dev |-> dev]

\* np.allclose(a, b, rtol=0, atol=t) on finite arrays: |a - b| <= t + 0 * |b|
allclose(a, b, t) == \A n \in DOMAIN a : abs_diff(a[n], b[n]) <= t

\* a plausible slip: truncation instead of np.round
can_convert_to_int_floor(a, t) ==
    IF is_integer_dtype(a.dtype)
    THEN Verdict(FALSE, "Array is alreay an integer type", None)
    ELSE IF \E x \in Range(a.data) : x.k = "nan"
    THEN Verdict(FALSE, "Array contains NaN values", None)
    ELSE IF \E x \in Range(a.data) : x.k \in {"pinf", "ninf"}
    THEN Verdict(FALSE, "Array contains infinity values", None)
    ELSE LET rounded_array == [n \in DOMAIN a.data |-> Floor(a.data[n])]
         IN IF ~ allclose(a.data, rounded_array, t)
            THEN Verdict(FALSE, "Values deviate from integers by up to",
                         Some(IntMax({abs_diff(a.data[n], rounded_array[n]) :
                                         n \in DOMAIN a.data})))
            ELSE Verdict(TRUE, "Safe to convert to ints", None)

can_convert_to_int(a, t) ==
    IF is_integer_dtype(a.dtype)
    THEN Verdict(FALSE, "Array is alreay an integer type", None)
    ELSE IF \E x \in Range(a.data) : x.k = "nan"
    THEN Verdict(FALSE, "Array contains NaN values", None)
    ELSE IF \E x \in Range(a.data) : x.k \in {"pinf", "ninf"}
    THEN Verdict(FALSE, "Array contains infinity values", None)
    ELSE LET rounded_array == [n \in DOMAIN a.data |-> np_round(a.data[n])]
         IN IF ~ allclose(a.data, rounded_array, t)
            THEN Verdict(FALSE, "Values deviate from integers by up to",
                         Some(IntMax({abs_diff(a.data[n], rounded_array[n]) :
                                         n \in DOMAIN a.data})))
            ELSE Verdict(TRUE, "Safe to convert to ints", None)

-----------------------------------------------------------------------------
(* Paths.  A path is [abs, parts]; a component is [stem, ext], the name      *)
(* stem \o ext, so that the pattern *.mgz is the test ext = ".mgz".           *)

Name(stem, ext) == [stem |-> stem, ext |-> ext]

Dir(stem) == Name(stem, "")

Mgz(stem) == Name(stem, ".mgz")

Path(abs, parts) == [abs |-> abs, parts |-> parts]

\* the working directory of the process
Cwd == <<Dir("w")>>

\* pathlib.Path.absolute()
absolute(p) == IF p.abs THEN p ELSE Path(TRUE, Cwd \o p.parts)

\* os.path.join(a, b): an absolute b discards a
os_path_join(a, b) == IF b.abs THEN b ELSE Path(a.abs, a.parts \o b.parts)

\* pathlib.Path.name and os.path.basename: the final component
basename(p) == p.parts[Len(p.parts)]

\* the file system the optimizer is started in
FsDirs ==
    { <<>>, <<Dir("w")>>, <<Dir("w"), Dir("in")>>, <<Dir("w"), Dir("in"), Dir("sub")>>,
      <<Dir("w"), Dir("out")>> }

FsFiles ==
    { <<Dir("w"), Dir("in"), Mgz("orig")>>,
      <<Dir("w"), Dir("in"), Name("notes", ".txt")>>,
      <<Dir("w"), Dir("in"), Dir("sub"), Mgz("aseg")>>,
      <<Dir("w"), Dir("in"), Dir("sub"), Name("scan", ".MGZ")>>,
      <<Dir("w"), Mgz("old")>> }

is_dir(p) == absolute(p).parts \in FsDirs

is_file(p) == absolute(p).parts \in FsFiles

exists(p) == is_dir(p) \/ is_file(p)

IsPrefix(s, t) == Len(s) <= Len(t) /\ SubSeq(t, 1, Len(s)) = s

\* inpath.rglob('*.mgz'): the matching entries below inpath, each as inpath / relative
rglob_mgz(inpath) ==
    { os_path_join(inpath, Path(FALSE, SubSeq(f, Len(absolute(inpath).parts) + 1, Len(f)))) :
        f \in { g \in FsFiles \cup FsDirs :
                  /\ IsPrefix(absolute(inpath).parts, g)
                  /\ Len(g) > Len(absolute(inpath).parts)
                  /\ g[Len(g)].ext = ".mgz" } }

\* the orders in which the directory scan may list a set of paths
Listings(S) ==
    { l \in [1..Cardinality(S) -> S] : \A m, n \in DOMAIN l : m # n => l[m] # l[n] }

-----------------------------------------------------------------------------
(* parse_args *)

IntentFlags ==
    {"", "--auto-detect-intent", "--is-imaging-data", "--is-label-data", "--ignore-intent"}

InPaths ==
    { Path(FALSE, <<Dir("in")>>),
      Path(TRUE, <<Dir("w"), Dir("in"), Dir("sub")>>),
      Path(FALSE, <<Dir("in"), Mgz("orig")>>),
      Path(TRUE, <<Dir("w"), Dir("in"), Dir("sub"), Mgz("aseg")>>),
      Path(FALSE, <<Mgz("nope")>>) }

OutPaths ==
    { None,
      Some(Path(FALSE, <<Dir("out")>>)),
      Some(Path(FALSE, <<Mgz("old")>>)),
      Some(Path(FALSE, <<Dir("out"), Mgz("new")>>)) }

\* a command line the parser accepts: -i, optional -o, optional -f, and at most one
\* flag of the mutually exclusive intent group
CommandLines ==
    [inpath : InPaths, outpath : OutPaths, force : BOOLEAN, intent_flag : IntentFlags]

\* store_true with default=True: auto_detect_intent is True whether or not its flag
\* is given; the other three are True exactly when given
parse_args(cmd) ==
    [inpath |-> cmd.inpath,
     outpath |-> cmd.outpath,
     force |-> cmd.force,
     auto_detect_intent |-> TRUE,
     is_imaging_data |-> cmd.intent_flag = "--is-imaging-data",
     is_label_data |-> cmd.intent_flag = "--is-label-data",
     ignore_intent |-> cmd.intent_flag = "--ignore-intent"]

-----------------------------------------------------------------------------
(* check_args *)

Checked(exc, ins, outs, code) ==
    [raised |-> exc, infilelist |-> ins, outfilelist |-> outs, intent |-> code]

\* lines 106-111
intent_of_args(a) ==
    IF a.is_imaging_data THEN Some(0)
    ELSE IF a.is_label_data THEN Some(1)
    ELSE IF a.auto_detect_intent THEN Some(-1)
    ELSE None

\* a plausible slip: the directory branch does not look at the kind of outpath
check_args_no_type_check(a, mgz_files) ==
    LET inpath == a.inpath
        code == intent_of_args(a)
    IN  IF ~ exists(inpath) THEN Checked("ValueError", <<>>, <<>>, code)
        ELSE IF is_file(inpath)
        THEN IF a.outpath = None
             THEN Checked("", <<absolute(inpath)>>, <<absolute(inpath)>>, code)
             ELSE IF is_dir(a.outpath[1])
             THEN Checked("TypeError", <<>>, <<>>, code)
             ELSE IF is_file(a.outpath[1])
             THEN Checked("", <<absolute(inpath)>>, <<absolute(a.outpath[1])>>, code)
             ELSE Checked("ValueError", <<>>, <<>>, code)
        ELSE LET outpath == IF a.outpath = None THEN inpath ELSE a.outpath[1]
             IN  Checked("",
                         [n \in DOMAIN mgz_files |->
                             os_path_join(absolute(inpath), absolute(mgz_files[n]))],
                         [n \in DOMAIN mgz_files |->
                             os_path_join(absolute(outpath), absolute(mgz_files[n]))],
                         code)

\* mgz_files is what list(inpath.rglob('*.mgz')) yields when the directory branch
\* runs.  outpath.absolute (line 128) is the bound method, not a path: os.path.join
\* raises TypeError on it, which the except clause does not catch either.
check_args(a, mgz_files) ==
    LET inpath == a.inpath
        code == intent_of_args(a)
    IN  IF ~ exists(inpath) THEN Checked("ValueError", <<>>, <<>>, code)
        ELSE IF is_file(inpath)
        THEN IF a.outpath = None
             THEN Checked("", <<absolute(inpath)>>, <<absolute(inpath)>>, code)
             ELSE IF is_dir(a.outpath[1])
             THEN Checked("TypeError", <<>>, <<>>, code)
             ELSE IF is_file(a.outpath[1])
             THEN Checked("", <<absolute(inpath)>>, <<absolute(a.outpath[1])>>, code)
             ELSE Checked("ValueError", <<>>, <<>>, code)
        ELSE LET outpath == IF a.outpath = None THEN inpath ELSE a.outpath[1]
             IN  IF is_file(outpath) THEN Checked("ValueError", <<>>, <<>>, code)
                 ELSE Checked("",
                              [n \in DOMAIN mgz_files |->
                                  os_path_join(absolute(inpath), absolute(mgz_files[n]))],
                              [n \in DOMAIN mgz_files |->
                                  os_path_join(absolute(outpath), absolute(mgz_files[n]))],
                              code)

-----------------------------------------------------------------------------
(* guess_intent_code_from_filename *)

mgz_label_files ==
    << Mgz("aparc+aseg"), Mgz("aparc.DKTatlas+aseg"), Mgz("aparc.a2005s+aseg"),
       Mgz("aparc.a2009s+aseg"), Mgz("apas+head"), Mgz("aseg.auto"),
       Mgz("aseg.auto_noCCseg"), Mgz("aseg"), Mgz("aseg.presurf.hypos"),
       Mgz("aseg.presurf"), Mgz("ctrl_pts"), Mgz("filled.auto"), Mgz("filled"),
       Mgz("gtmseg"), Mgz("lh.ribbon"), Mgz("rh.ribbon"), Mgz("ribbon"),
       Mgz("subcort.mask.1mm"), Mgz("subcort.mask"), Mgz("surface.defects"),
       Mgz("wm.asegedit"), Mgz("wmparc") >>

\* a plausible slip: a file that is no label file is taken for imaging data
guess_intent_code_from_filename_zero(filename) ==
    IF basename(filename) \in Range(mgz_label_files) THEN Some(1) ELSE Some(0)

guess_intent_code_from_filename(filename) ==
    IF basename(filename) \in Range(mgz_label_files) THEN Some(1) ELSE None

-----------------------------------------------------------------------------
(* optimize_mgz *)

\* a volume: the dtype and the samples of its array, and its metadata mapping, of
\* which the model keeps the key 'intent' (None: the key is absent)
Volume(dtype, data, code) == [dtype |-> dtype, data |-> data, metadata |-> [intent |-> code]]

\* Volume.data
data_of(mgz) == [dtype |-> mgz.dtype, data |-> mgz.data]

Outcome(loaded, saves, written, exc) ==
    [loaded |-> loaded, saves |-> saves, written |-> written, raised |-> exc]

\* a plausible slip: the skipped volume is still written to outfile
optimize_mgz_skip_saves(infile, outfile, code, force_convert_to_ints, loaded, save_ok) ==
    IF loaded = None THEN Outcome(loaded, <<>>, None, FALSE)
    ELSE LET mgz == loaded[1] IN
         IF ~ is_integer_dtype(mgz.dtype) /\ ~ force_convert_to_ints
         THEN Outcome(loaded, <<outfile>>, IF save_ok THEN Some(mgz) ELSE None, ~ save_ok)
         ELSE LET new_dtype == find_best_dtype(data_of(mgz))
                  converted == IF new_dtype = None THEN data_of(mgz)
                               ELSE astype(data_of(mgz), new_dtype[1])
                  guessed == IF code = Some(-1)
                             THEN guess_intent_code_from_filename(infile)
                             ELSE code
                  mgz_new == Volume(converted.dtype, converted.data,
                                    IF guessed # None THEN guessed
                                    ELSE mgz.metadata.intent)
              IN  Outcome(loaded, <<outfile>>,
                          IF save_ok THEN Some(mgz_new) ELSE None, ~ save_ok)

\* loaded is what sf.load_volume(infile) does: None when it raises, else the volume;
\* save_ok tells whether mgz_new.save(outfile) returns or raises.  The result lists
\* the save calls made, the volume written if any, and whether an exception left
\* the function.
optimize_mgz(infile, outfile, code, force_convert_to_ints, loaded, save_ok) ==
    IF loaded = None THEN Outcome(loaded, <<>>, None, FALSE)
    ELSE LET mgz == loaded[1] IN
         IF ~ is_integer_dtype(mgz.dtype) /\ ~ force_convert_to_ints
         THEN Outcome(loaded, <<>>, None, FALSE)
         ELSE LET new_dtype == find_best_dtype(data_of(mgz))
                  converted == IF new_dtype = None THEN data_of(mgz)
                               ELSE astype(data_of(mgz), new_dtype[1])
                  guessed == IF code = Some(-1)
                             THEN guess_intent_code_from_filename(infile)
                             ELSE code
                  mgz_new == Volume(converted.dtype, converted.data,
                                    IF guessed # None THEN guessed
                                    ELSE mgz.metadata.intent)
              IN  Outcome(loaded, <<outfile>>,
                          IF save_ok THEN Some(mgz_new) ELSE None, ~ save_ok)

-----------------------------------------------------------------------------
(* Sample arrays *)

\* integer sample values: the limits of the three candidates and their neighbours
IntSamples ==
    { MkInt(-32769, 65535), MkInt(-32768, 0), FromInt(-32769), FromInt(-32768),
      FromInt(-1), FromInt(0), FromInt(1), FromInt(255), FromInt(256),
      FromInt(32767), FromInt(32768), FromInt(40000),
      MkInt(32767, 65535), MkInt(32768, 0) }

\* floating-point sample values: integral, fractional and special
FloatSamples ==
    { Frac(-1, Scale - 1), Frac(-1, HalfScale), Frac(0, 1), Frac(1, HalfScale),
      Frac(2, 0), Frac(2, HalfScale), Frac(254, Scale - 1), Frac(255, 1),
      Frac(32767, 1), MkInt(32768, 0), NaN, PInf, NInf }

SeqsUpTo(S, lo, hi) == UNION {[1..n -> S] : n \in lo..hi}

InDtype(x, dtype) ==
    \/ dtype = "<i8"
    \/ \E n \in DOMAIN mgz_dtype_info :
          /\ mgz_dtype_info[n][1] = dtype
          /\ Leq(mgz_dtype_info[n][2], x) /\ Leq(x, mgz_dtype_info[n][3])

\* arrays of 64-bit integers and of floats
IntArrays(lo) == [dtype : {"<i8"}, data : SeqsUpTo(IntSamples, lo, MaxLen)]

FloatArrays(lo) == [dtype : FloatDtypes, data : SeqsUpTo(FloatSamples, lo, MaxLen)]

-----------------------------------------------------------------------------
(* The optimizer is idle in the specifications of the pure functions *)

MainIdle ==
    /\ argv = None /\ args = None
    /\ infilelist = <<>> /\ outfilelist = <<>> /\ intent = None
    /\ i = 0 /\ exitcode = None /\ raised_in = ""
    /\ last = None /\ calls = <<>>

mainvars == <<argv, args, infilelist, outfilelist, intent, i, exitcode, raised_in,
              last, calls>>

-----------------------------------------------------------------------------
(* find_best_dtype applied to every non-empty sample array *)

InitFB ==
    /\ pc = "call"
    /\ np_array \in IntArrays(1) \cup FloatArrays(1)
    /\ tol = 0
    /\ ret = None
    /\ MainIdle

CallFindBestDtype ==
    /\ pc = "call"
    /\ ret' = Some(find_best_dtype(np_array))
    /\ pc' = "returned"
    /\ UNCHANGED <<np_array, tol, mainvars>>

NextFB == CallFindBestDtype

SpecFB == InitFB /\ [][NextFB]_vars

-----------------------------------------------------------------------------
(* can_convert_to_int applied to every sample array and tolerance *)

InitCC ==
    /\ pc = "call"
    /\ np_array \in IntArrays(0) \cup FloatArrays(0)
    /\ tol \in 0..MaxTol
    /\ ret = None
    /\ MainIdle

CallCanConvertToInt ==
    /\ pc = "call"
    /\ ret' = Some(can_convert_to_int(np_array, tol))
    /\ pc' = "returned"
    /\ UNCHANGED <<np_array, tol, mainvars>>

NextCC == CallCanConvertToInt

SpecCC == InitCC /\ [][NextCC]_vars

-----------------------------------------------------------------------------
(* Claims about the pure functions *)

\* the candidate list as the specification words it
SpecCandidates ==
    << [name |-> ">u1", lo |-> FromInt(0), hi |-> FromInt(255)],
       [name |-> ">i2", lo |-> FromInt(-32768), hi |-> FromInt(32767)],
       [name |-> ">i4", lo |-> MkInt(-32768, 0), hi |-> MkInt(32767, 65535)] >>

\* every element of the array, hence its minimum and its maximum, lies in c's range
Contains(c, a) == \A x \in Range(a.data) : Leq(c.lo, x) /\ Leq(x, c.hi)

\* C1: find_best_dtype returns the first candidate, in the order 8-bit unsigned,
\* 16-bit signed, 32-bit signed, whose range contains the array's minimum and
\* maximum, and None exactly when no candidate's range contains them.
C1_FirstFittingCandidate ==
    pc = "returned" =>
        LET r == ret[1] IN
        /\ (r = None) <=> (\A n \in DOMAIN SpecCandidates : ~ Contains(SpecCandidates[n], np_array))
        /\ r # None =>
              \E n \in DOMAIN SpecCandidates :
                 /\ r[1] = SpecCandidates[n].name
                 /\ Contains(SpecCandidates[n], np_array)
                 /\ \A m \in 1..(n - 1) : ~ Contains(SpecCandidates[m], np_array)

\* [-1, 40000] has been given the 32-bit candidate: the two narrower ones do not fit
C1_Witness ==
    /\ pc = "returned"
    /\ np_array.data = <<FromInt(-1), FromInt(40000)>>
    /\ ret = Some(Some(">i4"))

\* distance of a finite value to its nearest integer, in units of 1/Scale
Deviation(x) == IF x.fr <= Scale - x.fr THEN x.fr ELSE Scale - x.fr

\* C2: can_convert_to_int decides in a fixed order: integer dtype, then NaN, then
\* infinity, then the absolute deviation from the nearest integer against tol; it
\* is true exactly when every deviation is at most tol, and otherwise reports the
\* largest deviation.
C2_DecisionOrder ==
    pc = "returned" =>
        LET v == ret[1]
            D == Range(np_array.data)
        IN  IF np_array.dtype \in IntDtypes
            THEN v.ok = FALSE /\ v.reason = "Array is alreay an integer type"
            ELSE IF \E x \in D : x.k = "nan"
            THEN v.ok = FALSE /\ v.reason = "Array contains NaN values"
            ELSE IF \E x \in D : x.k \in {"pinf", "ninf"}
            THEN v.ok = FALSE /\ v.reason = "Array contains infinity values"
            ELSE /\ v.ok <=> (\A x \in D : Deviation(x) <= tol)
                 /\ ~ v.ok =>
                      /\ v.reason = "Values deviate from integers by up to"
                      /\ v.max_dev # None
                      /\ \E x \in D : Deviation(x) = v.max_dev[1]
                      /\ \A x \in D : Deviation(x) <= v.max_dev[1]

\* a finite float array with an element further than tol from an integer was refused
C2_Witness ==
    /\ pc = "returned"
    /\ np_array.dtype \in FloatDtypes
    /\ \A x \in Range(np_array.data) : x.k = "fin"
    /\ tol = 1
    /\ \E x \in Range(np_array.data) : Deviation(x) = 1
    /\ \E x \in Range(np_array.data) : Deviation(x) = HalfScale
    /\ ret = Some(Verdict(FALSE, "Values deviate from integers by up to", Some(HalfScale)))

-----------------------------------------------------------------------------
(* The optimizer: main *)

\* samples of integer volumes: one that fits a candidate, one beyond all of them
VolIntSamples == {FromInt(255), MkInt(32768, 0)}

\* samples of floating-point volumes: fractional, integral, and one no candidate holds
VolFloatSamples == {Frac(1, HalfScale), Frac(2, 0), NaN}

\* the 'intent' a volume on disk may carry: absent, imaging data, label data
FileIntents == {None, Some(0), Some(1)}

\* the volumes a file may hold: an integer array has a dtype that holds its values
Volumes ==
    { Volume(a.dtype, a.data, c) :
        a \in { b \in [dtype : IntDtypes, data : SeqsUpTo(VolIntSamples, 1, MaxVolLen)] :
                  \A x \in Range(b.data) : InDtype(x, b.dtype) }
              \cup [dtype : FloatDtypes, data : SeqsUpTo(VolFloatSamples, 1, MaxVolLen)],
        c \in FileIntents }

Init ==
    /\ pc = "start"
    /\ argv = None /\ args = None
    /\ infilelist = <<>> /\ outfilelist = <<>> /\ intent = None
    /\ i = 0 /\ exitcode = None /\ raised_in = ""
    /\ last = None /\ calls = <<>>
    /\ np_array = None /\ tol = 0 /\ ret = None

\* line 213: args = parse_args()
ParseArgs ==
    /\ pc = "start"
    /\ \E cmd \in CommandLines :
          /\ argv' = Some(cmd)
          /\ args' = Some(parse_args(cmd))
    /\ pc' = "parsed"
    /\ UNCHANGED <<infilelist, outfilelist, intent, i, exitcode, raised_in, last, calls,
                   np_array, tol, ret>>

\* line 224: infilelist, outfilelist, intent = check_args(args); an exception leaves
\* main and the interpreter exits with status 1
CheckArgs ==
    /\ pc = "parsed"
    /\ \E mgz_files \in Listings(rglob_mgz(args[1].inpath)) :
          LET r == check_args(args[1], mgz_files) IN
          IF r.raised # ""
          THEN /\ pc' = "raised"
               /\ raised_in' = "check_args"
               /\ exitcode' = Some(1)
               /\ UNCHANGED <<infilelist, outfilelist, intent, i>>
          ELSE /\ pc' = "loop"
               /\ infilelist' = r.infilelist
               /\ outfilelist' = r.outfilelist
               /\ intent' = r.intent
               /\ i' = 1
               /\ UNCHANGED <<raised_in, exitcode>>
    /\ UNCHANGED <<argv, args, last, calls, np_array, tol, ret>>

\* lines 231-233: one iteration of the loop, a whole optimize_mgz call
OptimizeMgz ==
    /\ pc = "loop"
    /\ i <= Len(infilelist)
    /\ \E loaded \in {None} \cup {Some(v) : v \in Volumes}, save_ok \in BOOLEAN :
          LET r == optimize_mgz(infilelist[i], outfilelist[i], intent, args[1].force,
                                loaded, save_ok)
          IN  /\ last' = Some([idx |-> i, infile |-> infilelist[i],
                               outfile |-> outfilelist[i], loaded |-> r.loaded,
                               saves |-> r.saves, written |-> r.written,
                               raised |-> r.raised])
              /\ calls' = Append(calls, [idx |-> i, saves |-> r.saves, raised |-> r.raised])
              /\ IF r.raised
                 THEN /\ pc' = "raised"
                      /\ raised_in' = "optimize_mgz"
                      /\ exitcode' = Some(1)
                      /\ i' = i
                 ELSE /\ i' = i + 1
                      /\ UNCHANGED <<pc, raised_in, exitcode>>
    /\ UNCHANGED <<argv, args, infilelist, outfilelist, intent, np_array, tol, ret>>

\* line 234: return 0
Return ==
    /\ pc = "loop"
    /\ i > Len(infilelist)
    /\ pc' = "done"
    /\ exitcode' = Some(0)
    /\ UNCHANGED <<argv, args, infilelist, outfilelist, intent, i, raised_in, last, calls,
                   np_array, tol, ret>>

Next == ParseArgs \/ CheckArgs \/ OptimizeMgz \/ Return

Spec == Init /\ [][Next]_vars

-----------------------------------------------------------------------------
(* Claims about the optimizer *)

\* check_args has returned its lists to main
ListBuilt == pc \in {"loop", "done"} \/ raised_in = "optimize_mgz"

\* the latest optimize_mgz call wrote a volume
Saved == last # None /\ last[1].written # None

\* C3: every volume the optimizer saves holds exactly the sample values of the
\* volume it loaded, a floating-point volume converted under --force included.
C3_SavedValuesUnchanged ==
    Saved => last[1].written[1].data = last[1].loaded[1].data

\* C4: for every saved file, under auto-detect the output's intent is 1 when the
\* input's basename is a label file name and the input's own intent otherwise;
\* under 'always imaging' it is 0 and under 'always label' it is 1.
C4_IntentWritten ==
    Saved =>
        LET l == last[1]
            flag == argv[1].intent_flag
            out == l.written[1].metadata.intent
            in == l.loaded[1].metadata.intent
        IN  /\ l.infile = infilelist[l.idx]
            /\ flag \in {"", "--auto-detect-intent"} =>
                  out = IF basename(l.infile) \in Range(mgz_label_files) THEN Some(1) ELSE in
            /\ flag = "--is-imaging-data" => out = Some(0)
            /\ flag = "--is-label-data" => out = Some(1)

\* under auto-detect, orig.mgz carrying intent 1 was saved with intent 1, not 0
C4_Witness ==
    /\ Saved
    /\ argv[1].intent_flag = ""
    /\ basename(last[1].infile) = Mgz("orig")
    /\ last[1].loaded[1].metadata.intent = Some(1)
    /\ last[1].written[1].metadata.intent = Some(1)

\* C5: with --ignore-intent check_args yields the mode None and every saved
\* output carries the intent of its input.
C5_IgnoreIntentLeavesIntent ==
    (argv # None /\ argv[1].intent_flag = "--ignore-intent") =>
        /\ ListBuilt => intent = None
        /\ Saved => last[1].written[1].metadata.intent = last[1].loaded[1].metadata.intent

\* C6: for a directory input there is one pair per *.mgz file below it, and each
\* output path is the output root joined with the input's path relative to the
\* input directory.
C6_DirectoryMirrored ==
    (ListBuilt /\ is_dir(argv[1].inpath)) =>
        LET inroot == absolute(argv[1].inpath).parts
            outroot == IF argv[1].outpath = None THEN inroot
                       ELSE absolute(argv[1].outpath[1]).parts
            found == {f \in FsFiles : /\ IsPrefix(inroot, f)
                                      /\ f[Len(f)].ext = ".mgz"}
        IN  /\ Len(infilelist) = Cardinality(found)
            /\ Len(outfilelist) = Len(infilelist)
            /\ {infilelist[n].parts : n \in DOMAIN infilelist} = found
            /\ \A n \in DOMAIN infilelist :
                  /\ outfilelist[n].abs
                  /\ outfilelist[n].parts =
                        outroot \o SubSeq(infilelist[n].parts, Len(inroot) + 1,
                                          Len(infilelist[n].parts))
                  /\ outroot # inroot =>
                        /\ IsPrefix(outroot, outfilelist[n].parts)
                        /\ outfilelist[n] # infilelist[n]

\* C7: for an existing file input check_args succeeds with exactly one pair, whose
\* output is the input itself (no outpath), the input's basename inside outpath
\* (outpath a directory), or outpath as given (outpath a file path).
C7_FileInputOnePair ==
    (argv # None /\ is_file(argv[1].inpath) /\ pc \notin {"start", "parsed"}) =>
        /\ raised_in # "check_args"
        /\ Len(infilelist) = 1 /\ Len(outfilelist) = 1
        /\ infilelist[1] = absolute(argv[1].inpath)
        /\ outfilelist[1] =
              IF argv[1].outpath = None THEN absolute(argv[1].inpath)
              ELSE IF is_dir(argv[1].outpath[1])
              THEN Path(TRUE, absolute(argv[1].outpath[1]).parts
                                 \o <<basename(argv[1].inpath)>>)
              ELSE absolute(argv[1].outpath[1])

\* C8: an error raised while one file is processed (load, re-encoding or save)
\* never aborts the batch: every pair is processed in order and the exit code is 0.
C8_PerFileErrorsContained ==
    /\ raised_in # "optimize_mgz"
    /\ pc = "done" =>
          /\ exitcode = Some(0)
          /\ Len(calls) = Len(infilelist)
          /\ \A n \in DOMAIN calls : calls[n].idx = n

\* the input path does not exist, or it is a directory and outpath an existing file
PathResolutionFails ==
    /\ argv # None
    /\ \/ ~ (absolute(argv[1].inpath).parts \in FsDirs \cup FsFiles)
       \/ /\ absolute(argv[1].inpath).parts \in FsDirs
          /\ argv[1].outpath # None
          /\ absolute(argv[1].outpath[1]).parts \in FsFiles

\* C9: when path resolution fails, check_args raises before any per-file work: no
\* volume is loaded, no file is saved and the run does not end with exit code 0;
\* and no load or save happens before the pair list has been built.
C9_FailsBeforeAnyFile ==
    /\ PathResolutionFails =>
          /\ pc \in {"parsed", "raised"}
          /\ pc = "raised" => raised_in = "check_args" /\ exitcode = Some(1)
          /\ calls = <<>> /\ last = None
          /\ exitcode # Some(0)
    /\ (calls # <<>> \/ last # None) =>
          /\ ListBuilt
          /\ Len(infilelist) = Len(outfilelist)
          /\ Len(calls) <= Len(infilelist)

\* a directory input with an existing file as outpath has been refused
C9_Witness ==
    /\ pc = "raised"
    /\ is_dir(argv[1].inpath)
    /\ argv[1].outpath # None /\ is_file(argv[1].outpath[1])
    /\ raised_in = "check_args"
    /\ calls = <<>>

\* C10: a volume that loads with a non-integer dtype while --force is off is not
\* saved anywhere; a volume that loads and is integer-typed, or with --force on, is
\* saved exactly once, to its pair's output path, as an unchanged copy when no
\* candidate dtype fits.
C10_SavesPerPair ==
    (last # None /\ last[1].loaded # None) =>
        LET l == last[1]
            mgz == l.loaded[1]
            skip == mgz.dtype \notin IntDtypes /\ ~ argv[1].force
        IN  /\ calls[Len(calls)].saves = l.saves
            /\ skip => l.saves = <<>> /\ l.written = None /\ ~ l.raised
            /\ ~ skip =>
                  /\ l.saves = <<outfilelist[l.idx]>>
                  /\ (l.written # None /\ \A n \in DOMAIN SpecCandidates :
                                            ~ Contains(SpecCandidates[n], data_of(mgz))) =>
                        /\ l.written[1].dtype = mgz.dtype
                        /\ l.written[1].data = mgz.data

\* a float volume was skipped without --force although its output path differs
\* from its input path
C10_Witness ==
    /\ last # None /\ last[1].loaded # None
    /\ last[1].loaded[1].dtype \in FloatDtypes
    /\ ~ argv[1].force
    /\ last[1].outfile # last[1].infile
    /\ last[1].saves = <<>>

====
